---- MODULE Spec2Model ----
(***************************************************************************)
(* Smart Investment Advisor (src/app.py): the rule-based projection engine, *)
(* the narrator call with retry/backoff, and the page script with its       *)
(* session cache, as a state machine.                                       *)
(*                                                                          *)
(* Python floats are modelled as fixed-point numbers: the integer v stands  *)
(* for the value v / SCALE, and every product and quotient is rounded to    *)
(* the nearest representable value, as an IEEE operation is.  Python ints   *)
(* (ages, years, rupee amounts typed into the form) are integers.           *)
(***************************************************************************)
EXTENDS Integers, Sequences, FiniteSets, TLC

\* Resolution of the modelled floats: v stands for v / SCALE.
SCALE == 10000

\* ------------------------------------------------------------------ bounds
MaxSavings == 2          \* current savings range over 0..MaxSavings, times SavingsStep rupees
MaxInvest == 2           \* monthly investment ranges over 0..MaxInvest, times InvestStep rupees
MaxShortHorizon == 2     \* short horizons 1..MaxShortHorizon are explored beside the long ones
MaxPeriods == 14         \* periods n of the time-value functions range over 0..MaxPeriods
MaxPrincipal == 3        \* principals P of fv_lump_sum range over 0..MaxPrincipal rupees
MaxRawWeight == 2        \* raw allocation entries range over -1..MaxRawWeight quarters
MaxRuns == 2             \* script executions explored per behaviour of the page

SavingsStep == 500
InvestStep == 25
RelTol == 100            \* modelled roundings agree to one part in RelTol

\* ------------------------------------------------------ program constants
MonthsPerYear == 12
YoungAge == 35
MidAge == 50
LongHorizon == 15
MinAge == 18
MaxAge == 100
MinHorizon == 1
MaxHorizon == 60
max_retries == 2

\* ------------------------------------------------------- float arithmetic
\* n / d rounded to the nearest integer (n >= 0, d > 0).
RoundDiv(n, d) == (n + (d \div 2)) \div d

\* int -> float
ToFloat(n) == n * SCALE

\* a * b on floats (a, b >= 0): the exact product rounded once.
FMul(a, b) ==
    LET ah == a \div SCALE
        al == a % SCALE
        bh == b \div SCALE
        bl == b % SCALE
    IN  ah * bh * SCALE + ah * bl + al * bh + RoundDiv(al * bl, SCALE)

\* a / b on floats (b > 0): the exact quotient rounded once.
FDivPos(a, b) == (a \div b) * SCALE + RoundDiv((a % b) * SCALE, b)

FDiv(a, b) == IF a < 0 THEN 0 - FDivPos(0 - a, b) ELSE FDivPos(a, b)

\* x ** n for a float x and an int n >= 0 (the library pow, by squaring).
RECURSIVE FPow(_, _)
FPow(x, n) ==
    IF n = 0 THEN SCALE
    ELSE IF n % 2 = 0 THEN LET h == FPow(x, n \div 2) IN FMul(h, h)
    ELSE FMul(FPow(x, n - 1), x)

\* x ** (1/12) for a float x >= 1, by bisection: the float whose 12th power
\* is nearest to x.  The root lies between lo = 1 and hi = 1 + (x - 1) / 12 + ulp.
RECURSIVE RootSearch(_, _, _)
RootSearch(x, lo, hi) ==
    IF hi - lo <= 1
    THEN IF x - FPow(lo, 12) <= FPow(hi, 12) - x THEN lo ELSE hi
    ELSE LET mid == (lo + hi) \div 2
         IN  IF FPow(mid, 12) <= x THEN RootSearch(x, mid, hi) ELSE RootSearch(x, lo, mid)

Root12(x) == RootSearch(x, SCALE, SCALE + ((x - SCALE) \div 12) + 1)

\* ------------------------------------------------------- projection engine
fv_lump_sum_discounting(P, r, n) == FDiv(P, FPow(SCALE + r, n))

fv_lump_sum(P, r, n) == FMul(P, FPow(SCALE + r, n))

fv_annuity(PMT, r, n) ==
    IF r = 0 THEN PMT * n
    ELSE FMul(PMT, FDiv(FPow(SCALE + r, n) - SCALE, r))

annual_to_monthly_rate(annual_rate) == Root12(SCALE + annual_rate) - SCALE

discount_to_present(future_value, inflation_rate, years) ==
    FDiv(future_value, FPow(SCALE + inflation_rate, years))

project_corpus_years_as_months(current_savings, monthly_invest, annual_return, years) ==
    LET m == years
        rm == annual_to_monthly_rate(annual_return)
        fv_current == fv_lump_sum(ToFloat(current_savings), rm, m)
        fv_stream == fv_annuity(ToFloat(monthly_invest), rm, m)
    IN  fv_current + fv_stream

project_corpus(current_savings, monthly_invest, annual_return, years) ==
    LET m == years * 12
        rm == annual_to_monthly_rate(annual_return)
        fv_current == fv_lump_sum(ToFloat(current_savings), rm, m)
        fv_stream == fv_annuity(ToFloat(monthly_invest), rm, m)
    IN  fv_current + fv_stream

project_fd_corpus(principal, annual_rate, years) ==
    FMul(ToFloat(principal), FPow(SCALE + annual_rate, years))

inflation_adjust_series(values, inflation_rate, years_list) ==
    [i \in 1..Len(values) |-> discount_to_present(values[i], inflation_rate, years_list[i])]

\* The 12 monthly steps of one year of the trajectory loop.
RECURSIVE MonthLoop_withdrawing(_, _, _, _)
MonthLoop_withdrawing(bal, rm, monthly_invest, months) ==
    IF months = 0 THEN bal
    ELSE LET grown == FMul(bal, SCALE + rm)
             paid == ToFloat(monthly_invest)
         IN  MonthLoop_withdrawing(IF grown >= paid THEN grown - paid ELSE 0,
                                   rm, monthly_invest, months - 1)

RECURSIVE MonthLoop(_, _, _, _)
MonthLoop(bal, rm, monthly_invest, months) ==
    IF months = 0 THEN bal
    ELSE MonthLoop(FMul(bal, SCALE + rm) + ToFloat(monthly_invest), rm, monthly_invest, months - 1)

\* The year loop: one snapshot of the balance appended per year.
RECURSIVE YearLoop(_, _, _, _)
YearLoop(bal, rm, monthly_invest, years_left) ==
    IF years_left = 0 THEN <<>>
    ELSE LET b == MonthLoop(bal, rm, monthly_invest, MonthsPerYear)
         IN  <<b>> \o YearLoop(b, rm, monthly_invest, years_left - 1)

\* years = list(range(1, horizon + 1))
YearsList(horizon) == [i \in 1..horizon |-> i]

balances_nominal(current_savings, monthly_invest, exp_ret, horizon) ==
    YearLoop(ToFloat(current_savings), annual_to_monthly_rate(exp_ret), monthly_invest, horizon)

\* ----------------------------------------------------- allocation advisor
\* 0.07, 0.11, 0.14 as floats.
Pct(p) == (p * SCALE) \div 100

expected_return_from_risk(risk_level) ==
    CASE risk_level = "Low" -> Pct(7)
      [] risk_level = "Medium" -> Pct(11)
      [] risk_level = "High" -> Pct(14)

suggest_allocation_from_risk(risk_level) ==
    IF risk_level = "Low"
    THEN [Equity |-> Pct(20), Debt |-> Pct(65), Gold |-> Pct(10), Cash |-> Pct(5)]
    ELSE IF risk_level = "High"
    THEN [Equity |-> Pct(75), Debt |-> Pct(15), Gold |-> Pct(5), Cash |-> Pct(5)]
    ELSE [Equity |-> Pct(55), Debt |-> Pct(30), Gold |-> Pct(10), Cash |-> Pct(5)]

\* keys = ["Equity", "Debt", "Gold", "Cash"]
AllocKeys == <<"Equity", "Debt", "Gold", "Cash">>

\* A raw entry is a value as it arrives from outside: a number (a float), or
\* something float() rejects.  A mapping is a function on the keys it has.
Num(v) == [numeric |-> TRUE, val |-> v]
NotANumber == [numeric |-> FALSE, val |-> 0]

\* default_alloc.get(k, 0.0)
DefaultGet(default_alloc, k) == IF k \in DOMAIN default_alloc THEN default_alloc[k] ELSE 0

\* The try/except of the loop body: float(raw_alloc.get(k, default)) or,
\* when float() raises, float(default).
Coerce(raw_alloc, default_alloc, k) ==
    IF k \in DOMAIN raw_alloc
    THEN IF raw_alloc[k].numeric THEN raw_alloc[k].val ELSE DefaultGet(default_alloc, k)
    ELSE DefaultGet(default_alloc, k)

\* sum(out.values())
SumValues(out) == out[AllocKeys[1]] + out[AllocKeys[2]] + out[AllocKeys[3]] + out[AllocKeys[4]]

normalize_allocation_no_guard(raw_alloc, default_alloc) ==
    LET out == [k \in {AllocKeys[i] : i \in 1..Len(AllocKeys)} |-> Coerce(raw_alloc, default_alloc, k)]
        s == SumValues(out)
    IN  IF s = 0 THEN default_alloc
        ELSE [k \in DOMAIN out |-> IF s < 0 THEN 0 - FDiv(out[k], 0 - s) ELSE FDiv(out[k], s)]

normalize_allocation(raw_alloc, default_alloc) ==
    LET out == [k \in {AllocKeys[i] : i \in 1..Len(AllocKeys)} |-> Coerce(raw_alloc, default_alloc, k)]
        s == SumValues(out)
    IN  IF s <= 0 THEN default_alloc
        ELSE [k \in DOMAIN out |-> FDiv(out[k], s)]

\* -------------------------------------------------------- risk classifier
\* The savings rate as the exact ratio <<numerator, denominator>>.  The code
\* divides two ints into a double and compares with the double 0.3; for
\* amounts below 10^15 that comparison agrees with the exact one.
savings_rate_unguarded(monthly_invest, income) ==
    <<monthly_invest, IF income > 1 THEN income ELSE 1>>

savings_rate(monthly_invest, income) ==
    IF income <= 0 THEN <<0, 1>>
    ELSE <<monthly_invest, IF income > 1 THEN income ELSE 1>>

\* ratio >= 0.3
AtLeastThreeTenths(ratio) == 10 * ratio[1] >= 3 * ratio[2]

GrowthGoals == {"Wealth Creation", "Retirement"}

many_growth_goals(goals) == \E g \in GrowthGoals : \E i \in 1..Len(goals) : goals[i] = g

risk_score_age_inclusive(age, horizon, goals, monthly_invest, income) ==
    (IF age <= YoungAge THEN 2 ELSE IF age <= MidAge THEN 1 ELSE 0)
    + (IF horizon >= LongHorizon THEN 2 ELSE 0)
    + (IF AtLeastThreeTenths(savings_rate(monthly_invest, income)) THEN 1 ELSE 0)
    + (IF many_growth_goals(goals) THEN 1 ELSE 0)

risk_score(age, horizon, goals, monthly_invest, income) ==
    (IF age < YoungAge THEN 2 ELSE IF age <= MidAge THEN 1 ELSE 0)
    + (IF horizon >= LongHorizon THEN 2 ELSE 0)
    + (IF AtLeastThreeTenths(savings_rate(monthly_invest, income)) THEN 1 ELSE 0)
    + (IF many_growth_goals(goals) THEN 1 ELSE 0)

risk_tier_high_from_four(score) ==
    IF score <= 2 THEN "Low" ELSE IF score <= 3 THEN "Medium" ELSE "High"

risk_tier(score) ==
    IF score <= 2 THEN "Low" ELSE IF score <= 4 THEN "Medium" ELSE "High"

infer_risk(age, horizon, goals, monthly_invest, income) ==
    LET score == risk_score(age, horizon, goals, monthly_invest, income)
    IN  <<risk_tier(score), score>>

\* ------------------------------------------------------------- narrator
\* What one requests.post(...) attempt can come to: it raises (connection
\* error), it times out after 45 s (raises too), or a response arrives with a
\* status and a body that does or does not have choices[0].message.content.
Outcomes ==
    {[kind |-> "exception", status |-> 0, wellformed |-> FALSE, content |-> ""],
     [kind |-> "timeout", status |-> 0, wellformed |-> FALSE, content |-> ""],
     [kind |-> "response", status |-> 500, wellformed |-> FALSE, content |-> ""],
     [kind |-> "response", status |-> 200, wellformed |-> FALSE, content |-> ""],
     [kind |-> "response", status |-> 200, wellformed |-> TRUE, content |-> ""],
     [kind |-> "response", status |-> 200, wellformed |-> TRUE, content |-> "advisor note"]}

\* Python's None and a returned text.
None == [present |-> FALSE, text |-> ""]
Text(t) == [present |-> TRUE, text |-> t]

\* The body of the try: "return" when the response has status 200 and the
\* content can be extracted, "retry" when anything raised (except Exception:
\* pass) or the status is not 200, "raise" when an exception escapes.
AttemptResult_parse_outside_try(o) ==
    IF o.kind = "response" /\ o.status = 200
    THEN IF o.wellformed THEN "return" ELSE "raise"
    ELSE "retry"

AttemptResult(o) ==
    IF o.kind = "response" /\ o.status = 200 /\ o.wellformed THEN "return" ELSE "retry"

\* time.sleep((2 ** attempt) + 0.1 * attempt), in tenths of a second.
RECURSIVE Pow2(_)
Pow2(n) == IF n = 0 THEN 1 ELSE 2 * Pow2(n - 1)

BackoffDelay(attempt_no) == 10 * Pow2(attempt_no) + attempt_no

\* for attempt in range(max_retries): is there another iteration?
LoopContinues(attempt_no) == attempt_no < max_retries

\* if not api_key: return None
NarratorDisabled_never(key_present) == FALSE

NarratorDisabled(key_present) == ~key_present

\* ------------------------------------------------------------ page script
\* if submitted and selected_goals:
RunGuard(submitted, selected_goals) == submitted /\ selected_goals # <<>>

\* if not llm_advice:
UseFallback(llm) == ~llm.present \/ llm.text = ""

\* f"{n:,.0f}" of an int: its decimal digits in groups of three.
RECURSIVE Grouped(_)
Grouped(n) == IF n < 1000 THEN <<n>> ELSE Grouped(n \div 1000) \o <<n % 1000>>

\* f"{exp_ret*100:.1f}": the percentage in tenths.
OneDecimal(x) == RoundDiv(FMul(x, ToFloat(100)) * 10, SCALE)

Lower(risk_level) ==
    CASE risk_level = "Low" -> "low"
      [] risk_level = "Medium" -> "medium"
      [] risk_level = "High" -> "high"

\* The fallback sentence: its six interpolated fields.
FallbackAdvice(age, monthly_invest, current_savings, horizon, inferred_risk, exp_ret) ==
    [source |-> "fallback",
     text |-> "Based on your age ...",
     fields |-> <<[age |-> age,
                   monthly_invest |-> Grouped(monthly_invest),
                   current_savings |-> Grouped(current_savings),
                   horizon |-> horizon,
                   risk |-> Lower(inferred_risk),
                   cagr |-> OneDecimal(exp_ret)]>>]

LlmAdvice(llm) == [source |-> "llm", text |-> llm.text, fields |-> <<>>]

\* The numbers of one run: the three corpora and the two yearly series.
Projection(current_savings, monthly_invest, exp_ret, horizon, inflation_rate, fd_rate) ==
    LET corpus_port == project_corpus(current_savings, monthly_invest, exp_ret, horizon)
        corpus_fd == project_fd_corpus(current_savings + monthly_invest * 12 * horizon,
                                       fd_rate, horizon)
        years == YearsList(horizon)
        nominal == balances_nominal(current_savings, monthly_invest, exp_ret, horizon)
    IN  [corpus_port |-> corpus_port,
         corpus_fd |-> corpus_fd,
         real_corpus_port |-> discount_to_present(corpus_port, inflation_rate, horizon),
         years |-> years,
         balances_nominal |-> nominal,
         balances_real |-> inflation_adjust_series(nominal, inflation_rate, years)]

\* The dict stored under st.session_state["latest_context"].
Context(p, inp, inferred_risk, exp_ret) ==
    [years |-> p.years,
     balances_nominal |-> p.balances_nominal,
     balances_real |-> p.balances_real,
     fd_future |-> p.corpus_fd,
     fd_real |-> discount_to_present(p.corpus_fd, inp.inflation_rate, inp.horizon),
     port_future |-> p.corpus_port,
     port_real |-> p.real_corpus_port,
     inflation_rate |-> inp.inflation_rate,
     fd_rate |-> inp.fd_rate,
     exp_ret |-> exp_ret,
     risk_level |-> inferred_risk,
     selected_goals |-> inp.selected_goals]

\* st.session_state["latest_context"] = {...}
SaveContext_keep_first(cache, ctx) == IF cache = <<>> THEN <<ctx>> ELSE cache

SaveContext(cache, ctx) == <<ctx>>

\* The comparison tab: nothing but a hint while the cache is absent, the four
\* figures and the goal and risk summary otherwise.
CompareTab(cache) ==
    IF cache = <<>> THEN <<>>
    ELSE <<[port_future |-> cache[1].port_future,
            port_real |-> cache[1].port_real,
            fd_future |-> cache[1].fd_future,
            fd_real |-> cache[1].fd_real,
            top_goal |-> cache[1].selected_goals[1],
            risk_level |-> cache[1].risk_level]>>

\* ------------------------------------------------------------------ state
VARIABLES
    pc,              \* "idle": no script running; "llm": in the retry loop of
                     \* call_llm_with_backoff; "project": the call has returned
    have_key,        \* is OPENROUTER_API_KEY configured (environment or secrets)
    inp,             \* <<the widget values of the latest run>>, or <<>> before any
    rule,            \* <<[risk, score, alloc, exp_ret]>> of the latest run, or <<>>
    attempt,         \* the loop variable of the retry loop (of the latest call)
    requests,        \* requests.post calls made by the latest call
    last_outcome,    \* <<what the latest of those attempts came to>>, or <<>>
    sleeps,          \* the delays slept by the latest call, in tenths of a second
    llm_advice,      \* the value the latest call returned (None while it is running)
    shown,           \* <<what the main tab rendered for the run>>, or <<>>
    latest_context,  \* st.session_state["latest_context"]: <<ctx>>, or <<>> when absent
    compare_view,    \* <<the figures the comparison tab shows>>, or <<>> (the hint only)
    last_run,        \* history: <<the context built by the latest executed run>>
    last_event,      \* history: the button and goal list of the latest script execution
    runs,            \* script executions so far
    fn_args,         \* a pure function under test: its arguments
    fn_result        \* <<its result>>, or <<>> before it is applied

page_vars == <<pc, have_key, inp, rule, attempt, requests, last_outcome, sleeps, llm_advice,
               shown, latest_context, compare_view, last_run, last_event, runs>>
fn_vars == <<fn_args, fn_result>>
vars == <<page_vars, fn_vars>>

\* ------------------------------------------------------------ page inputs
\* number_input(...) / 100.0
PercentInput(p) == FDiv(ToFloat(p), ToFloat(100))

PageAges == {30, 60}
PageHorizons == {2, LongHorizon}
PageInvests == {40}
PageGoals == {<<>>, <<"Wealth Creation">>, <<"Other">>}

PageInputs ==
    [age : PageAges, horizon : PageHorizons, income : {100}, monthly_invest : PageInvests,
     current_savings : {1000}, inflation_rate : {PercentInput(5)}, fd_rate : {PercentInput(7)},
     selected_goals : PageGoals, submitted : BOOLEAN]

PageInit ==
    /\ pc = "idle"
    /\ have_key \in BOOLEAN
    /\ inp = <<>>
    /\ rule = <<>>
    /\ attempt = 0
    /\ requests = 0
    /\ last_outcome = <<>>
    /\ sleeps = <<>>
    /\ llm_advice = None
    /\ shown = <<>>
    /\ latest_context = <<>>
    /\ compare_view = <<>>
    /\ last_run = <<>>
    /\ last_event = [submitted |-> FALSE, selected_goals |-> <<"Wealth Creation">>]
    /\ runs = 0

FnIdle == fn_args = <<>> /\ fn_result = <<>>

Init == PageInit /\ FnIdle

\* A script execution whose run block is skipped: the button was not pressed,
\* or no goal is selected.  Only the comparison tab has something to read.
Rerun(i) ==
    /\ pc = "idle"
    /\ runs < MaxRuns
    /\ ~RunGuard(i.submitted, i.selected_goals)
    /\ shown' = <<>>
    /\ compare_view' = CompareTab(latest_context)
    /\ last_event' = [submitted |-> i.submitted, selected_goals |-> i.selected_goals]
    /\ runs' = runs + 1
    /\ UNCHANGED <<pc, have_key, inp, rule, attempt, requests, last_outcome, sleeps,
                   llm_advice, latest_context, last_run, fn_vars>>

\* A script execution that enters the run block: the rules are evaluated and
\* call_llm_with_backoff starts; without a credential it returns None at once.
StartRun(i) ==
    /\ pc = "idle"
    /\ runs < MaxRuns
    /\ RunGuard(i.submitted, i.selected_goals)
    /\ LET r == infer_risk(i.age, i.horizon, i.selected_goals, i.monthly_invest, i.income)
       IN  rule' = <<[risk |-> r[1], score |-> r[2],
                      alloc |-> suggest_allocation_from_risk(r[1]),
                      exp_ret |-> expected_return_from_risk(r[1])]>>
    /\ inp' = <<i>>
    /\ last_event' = [submitted |-> i.submitted, selected_goals |-> i.selected_goals]
    /\ attempt' = 0
    /\ requests' = 0
    /\ last_outcome' = <<>>
    /\ sleeps' = <<>>
    /\ llm_advice' = None
    /\ pc' = IF NarratorDisabled(have_key) THEN "project" ELSE "llm"
    /\ UNCHANGED <<have_key, shown, latest_context, compare_view, last_run, runs, fn_vars>>

\* One iteration of the retry loop: the request, then either the return of
\* the content or the sleep; after the last iteration, return None.
Attempt(o) ==
    /\ pc = "llm"
    /\ LoopContinues(attempt)
    /\ requests' = requests + 1
    /\ last_outcome' = <<o>>
    /\ IF AttemptResult(o) = "return"
       THEN /\ llm_advice' = Text(o.content)
            /\ pc' = "project"
            /\ UNCHANGED <<attempt, sleeps>>
       ELSE IF AttemptResult(o) = "retry"
       THEN /\ sleeps' = Append(sleeps, BackoffDelay(attempt))
            /\ attempt' = attempt + 1
            /\ llm_advice' = None
            /\ pc' = IF LoopContinues(attempt + 1) THEN "llm" ELSE "project"
       ELSE /\ pc' = "raised"
            /\ UNCHANGED <<attempt, sleeps, llm_advice>>
    /\ UNCHANGED <<have_key, inp, rule, shown, latest_context, compare_view, last_run,
                   last_event, runs, fn_vars>>

\* The rest of the run block: the advice, the projection, the rendering, the
\* write of the cache, and then the comparison tab reading it.
Finish ==
    /\ pc = "project"
    /\ LET i == inp[1]
           inferred_risk == rule[1].risk
           exp_ret == rule[1].exp_ret
           advice == IF UseFallback(llm_advice)
                     THEN FallbackAdvice(i.age, i.monthly_invest, i.current_savings,
                                         i.horizon, inferred_risk, exp_ret)
                     ELSE LlmAdvice(llm_advice)
           p == Projection(i.current_savings, i.monthly_invest, exp_ret, i.horizon,
                           i.inflation_rate, i.fd_rate)
           ctx == Context(p, i, inferred_risk, exp_ret)
       IN  /\ shown' = <<[advice |-> advice, risk |-> inferred_risk, score |-> rule[1].score,
                          exp_ret |-> exp_ret, alloc |-> rule[1].alloc, projection |-> p]>>
           /\ latest_context' = SaveContext(latest_context, ctx)
           /\ compare_view' = CompareTab(SaveContext(latest_context, ctx))
           /\ last_run' = <<ctx>>
    /\ pc' = "idle"
    /\ runs' = runs + 1
    /\ UNCHANGED <<have_key, inp, rule, attempt, requests, last_outcome, sleeps, llm_advice,
                   last_event, fn_vars>>

Next ==
    \/ \E i \in PageInputs : Rerun(i)
    \/ \E i \in PageInputs : StartRun(i)
    \/ \E o \in Outcomes : Attempt(o)
    \/ Finish

Spec == Init /\ [][Next]_vars

\* ------------------------------------------- the pure functions, applied
\* The page stays as constructed while a function is applied to arguments
\* drawn from its input ranges.
PageQuiet == PageInit /\ have_key = FALSE

\* infer_risk over the whole form range of age and horizon.
RiskGoals == {<<"Wealth Creation">>, <<"Other">>, <<"Education", "Retirement">>}

\* <<monthly investment, monthly income>>
RiskCashflows ==
    {<<0, 0>>, <<1, 0>>, <<5, 0 - 1>>, <<3, 10>>, <<2, 10>>, <<1, 1>>,
     <<30000, 100000>>, <<29999, 100000>>, <<1000, 100000>>}

RiskInit ==
    /\ PageQuiet
    /\ fn_args \in {[age |-> a, horizon |-> h, goals |-> g, monthly_invest |-> c[1], income |-> c[2]] :
                        a \in MinAge..MaxAge, h \in MinHorizon..MaxHorizon,
                        g \in RiskGoals, c \in RiskCashflows}
    /\ fn_result = <<>>

ApplyInferRisk ==
    /\ fn_result = <<>>
    /\ LET r == infer_risk(fn_args.age, fn_args.horizon, fn_args.goals,
                           fn_args.monthly_invest, fn_args.income)
       IN  fn_result' = <<[risk |-> r[1], score |-> r[2]]>>
    /\ UNCHANGED <<page_vars, fn_args>>

RiskSpec == RiskInit /\ [][ApplyInferRisk]_vars

\* The head of the run block over the same arguments: the tier and score of
\* infer_risk, then the mix and the expected return looked up from the tier.
ApplyRules ==
    /\ fn_result = <<>>
    /\ LET r == infer_risk(fn_args.age, fn_args.horizon, fn_args.goals,
                           fn_args.monthly_invest, fn_args.income)
           rule_risk == r[1]
           base_alloc == suggest_allocation_from_risk(rule_risk)
           base_exp_ret == expected_return_from_risk(rule_risk)
       IN  fn_result' = <<[rule_risk |-> rule_risk, risk_score |-> r[2],
                           base_alloc |-> base_alloc, base_exp_ret |-> base_exp_ret]>>
    /\ UNCHANGED <<page_vars, fn_args>>

RulesSpec == RiskInit /\ [][ApplyRules]_vars

\* The projection of a run over savings, contributions, returns (the three
\* tiers' and zero), short and long horizons and inflation rates.
ProjInit ==
    /\ PageQuiet
    /\ fn_args \in [current_savings : {k * SavingsStep : k \in 0..MaxSavings},
                     monthly_invest : {k * InvestStep : k \in 0..MaxInvest},
                     annual_return : {0, Pct(7), Pct(11), Pct(14)},
                     horizon : (1..MaxShortHorizon) \cup {LongHorizon},
                     inflation_rate : {PercentInput(0), PercentInput(5), PercentInput(7),
                                       PercentInput(15)},
                     fd_rate : {PercentInput(7)}]
    /\ fn_result = <<>>

ApplyProjection ==
    /\ fn_result = <<>>
    /\ fn_result' = <<Projection(fn_args.current_savings, fn_args.monthly_invest,
                                 fn_args.annual_return, fn_args.horizon,
                                 fn_args.inflation_rate, fn_args.fd_rate)>>
    /\ UNCHANGED <<page_vars, fn_args>>

ProjSpec == ProjInit /\ [][ApplyProjection]_vars

\* fv_lump_sum at n and n + 1 periods, for the monthly rates of the three
\* tiers and two larger rates.
FvRates ==
    {annual_to_monthly_rate(Pct(7)), annual_to_monthly_rate(Pct(11)),
     annual_to_monthly_rate(Pct(14)), Pct(7), Pct(50)}

FvInit ==
    /\ PageQuiet
    /\ fn_args \in [P : 0..MaxPrincipal, r : FvRates, n : 0..MaxPeriods]
    /\ fn_result = <<>>

ApplyFvLumpSum ==
    /\ fn_result = <<>>
    /\ fn_result' = <<[at_n |-> fv_lump_sum(ToFloat(fn_args.P), fn_args.r, fn_args.n),
                       at_next |-> fv_lump_sum(ToFloat(fn_args.P), fn_args.r, fn_args.n + 1)]>>
    /\ UNCHANGED <<page_vars, fn_args>>

FvSpec == FvInit /\ [][ApplyFvLumpSum]_vars

\* normalize_allocation over raw mappings with any subset of the keys, each
\* entry a multiple of a quarter (negative too) or not a number, and over the
\* three tier mixes and defaults that do not sum to 1.
KeySet == {AllocKeys[i] : i \in 1..Len(AllocKeys)}
Quarter == SCALE \div 4
RawEntries == {NotANumber} \cup {Num(k * Quarter) : k \in (0 - 1)..MaxRawWeight}
RawMappings == UNION {[D -> RawEntries] : D \in SUBSET KeySet}
TierMixes == {suggest_allocation_from_risk(t) : t \in {"Low", "Medium", "High"}}
OtherDefaults ==
    {[k \in KeySet |-> SCALE \div 2], [k \in KeySet |-> 0], [k \in {"Equity"} |-> SCALE]}

AllocInit ==
    /\ PageQuiet
    /\ fn_args \in [raw_alloc : RawMappings, default_alloc : TierMixes \cup OtherDefaults]
    /\ fn_result = <<>>

ApplyNormalize ==
    /\ fn_result = <<>>
    /\ fn_result' = <<normalize_allocation(fn_args.raw_alloc, fn_args.default_alloc)>>
    /\ UNCHANGED <<page_vars, fn_args>>

AllocSpec == AllocInit /\ [][ApplyNormalize]_vars

\* ================================================================= claims
\* The score the specification states, rule by rule, with the savings rule
\* left as a parameter.
StatedAgePoints(age) == IF age < 35 THEN 2 ELSE IF age >= 35 /\ age <= 50 THEN 1 ELSE 0
StatedHorizonPoints(horizon) == IF horizon >= 15 THEN 2 ELSE 0
StatedGoalPoints(goals) ==
    IF \E i \in 1..Len(goals) : goals[i] \in {"Wealth Creation", "Retirement"} THEN 1 ELSE 0
StatedScore(a, savings_points) ==
    StatedAgePoints(a.age) + StatedHorizonPoints(a.horizon) + savings_points + StatedGoalPoints(a.goals)
StatedTier(score) ==
    IF score <= 2 THEN "Low" ELSE IF score \in {3, 4} THEN "Medium" ELSE "High"
RiskApplied == fn_result # <<>>

\* C1: for income >= 1, infer_risk returns the sum of the four stated rules
\* (the savings rule being monthly investment / income >= 0.3) with the tier
\* Low up to 2, Medium for 3 and 4, High from 5; the two worked examples of the
\* specification give 6/High and 0/Low.
C1_ScoreAndTier ==
    (RiskApplied /\ fn_args.income >= 1) =>
        /\ fn_result[1].score =
               StatedScore(fn_args, IF 10 * fn_args.monthly_invest >= 3 * fn_args.income THEN 1 ELSE 0)
        /\ fn_result[1].risk = StatedTier(fn_result[1].score)
        /\ (fn_args = [age |-> 30, horizon |-> 20, goals |-> <<"Wealth Creation">>,
                       monthly_invest |-> 30000, income |-> 100000])
               => fn_result[1] = [risk |-> "High", score |-> 6]
        /\ (fn_args = [age |-> 60, horizon |-> 5, goals |-> <<"Other">>,
                       monthly_invest |-> 1000, income |-> 100000])
               => fn_result[1] = [risk |-> "Low", score |-> 0]

C1_Witness ==
    /\ RiskApplied
    /\ fn_args = [age |-> 30, horizon |-> 20, goals |-> <<"Wealth Creation">>,
                  monthly_invest |-> 30000, income |-> 100000]
    /\ fn_result[1] = [risk |-> "High", score |-> 6]

\* C2 as stated: for income <= 0 the savings rule divides by max(income, 1) = 1,
\* so it adds 1 to the score exactly when the monthly investment is >= 0.3.
C2_FlooredDivisorAddsPoint ==
    (RiskApplied /\ fn_args.income <= 0) =>
        fn_result[1].score = StatedScore(fn_args, IF 10 * fn_args.monthly_invest >= 3 THEN 1 ELSE 0)

\* C2 as amended: for income <= 0 the savings rate is taken to be 0, so the
\* savings rule adds nothing to the score whatever the monthly investment is;
\* the divisor of the rate is never below 1, so no division by zero occurs.
C2_NoIncomeNoSavingsPoint ==
    /\ (RiskApplied /\ fn_args.income <= 0) => fn_result[1].score = StatedScore(fn_args, 0)
    /\ RiskApplied => savings_rate(fn_args.monthly_invest, fn_args.income)[2] >= 1

C2_Witness ==
    /\ RiskApplied
    /\ fn_args.income <= 0
    /\ fn_args.monthly_invest >= 1
    /\ fn_result[1].score = StatedScore(fn_args, 0)

\* An attempt that did not deliver a text: it raised or timed out, the status
\* was not 200, or the body of a 200 response was malformed.
FailedAttempt(o) == o.kind \in {"exception", "timeout"} \/ o.status # 200 \/ ~o.wellformed
CallReturned == inp # <<>> /\ pc \in {"project", "idle"}
RunExecuted == pc = "idle" /\ shown # <<>>

\* Reading a number back from its groups of three digits.
RECURSIVE Ungrouped(_)
Ungrouped(g) ==
    IF g = <<>> THEN 0 ELSE 1000 * Ungrouped(SubSeq(g, 1, Len(g) - 1)) + g[Len(g)]

StatedReturnTenths(tier) ==
    CASE tier = "Low" -> 70 [] tier = "Medium" -> 110 [] tier = "High" -> 140

\* C3: when the narrator is unavailable (no credential, or every attempt
\* failed) the call returns None and never raises; the run that follows shows
\* the three corpora and both yearly series, and its advisory text is the
\* fallback sentence carrying the age, monthly investment, current savings,
\* horizon, tier and expected return of the run; the advisory text of every
\* executed run is non-empty, an empty narrator text being replaced too.
C3_NarratorFailureAbsorbed ==
    /\ pc # "raised"
    /\ (CallReturned /\ (~have_key \/ attempt = max_retries)) => llm_advice = None
    /\ RunExecuted =>
          LET i == inp[1]
              out == shown[1]
          IN  /\ DOMAIN out.projection = {"corpus_port", "corpus_fd", "real_corpus_port",
                                           "years", "balances_nominal", "balances_real"}
              /\ Len(out.projection.balances_nominal) = i.horizon
              /\ Len(out.projection.balances_real) = i.horizon
              /\ out.advice.text # ""
              /\ (~llm_advice.present \/ llm_advice.text = "") =>
                    /\ out.advice.source = "fallback"
                    /\ out.advice.fields[1].age = i.age
                    /\ Ungrouped(out.advice.fields[1].monthly_invest) = i.monthly_invest
                    /\ Ungrouped(out.advice.fields[1].current_savings) = i.current_savings
                    /\ out.advice.fields[1].horizon = i.horizon
                    /\ out.advice.fields[1].risk = Lower(out.risk)
                    /\ out.advice.fields[1].cagr = StatedReturnTenths(out.risk)

C3_Witness ==
    /\ RunExecuted
    /\ have_key
    /\ attempt = max_retries
    /\ last_outcome = <<[kind |-> "response", status |-> 200, wellformed |-> FALSE, content |-> ""]>>
    /\ shown[1].advice.source = "fallback"
    /\ Ungrouped(shown[1].advice.fields[1].current_savings) = 1000

\* C4: one call sends at most 2 requests and none without a credential; after
\* an attempt that returned a well-formed 200 response no further request is
\* sent and that content is the result; every failed attempt is followed by
\* the next attempt, and after the last one the call has returned None.  The
\* loop always has a step to take and each step uses up one of the attempts.
C4_BoundedRetry ==
    /\ requests <= 2
    /\ ~have_key => requests = 0
    /\ (~have_key /\ CallReturned) => llm_advice = None
    /\ pc = "llm" => /\ have_key
                     /\ requests < 2
                     /\ requests = attempt
                     /\ ENABLED (\E o \in Outcomes : Attempt(o))
    /\ (last_outcome # <<>> /\ ~FailedAttempt(last_outcome[1])) =>
          /\ pc \in {"project", "idle"}
          /\ llm_advice = Text(last_outcome[1].content)
    /\ (last_outcome # <<>> /\ FailedAttempt(last_outcome[1])) =>
          /\ requests < 2 => pc = "llm"
          /\ requests = 2 => (pc \in {"project", "idle"} /\ llm_advice = None)

C4_Witness ==
    /\ pc = "project"
    /\ requests = 2
    /\ last_outcome # <<>>
    /\ last_outcome[1].kind = "timeout"
    /\ llm_advice = None

\* C10: the cache is the context of the most recent executed run, and absent
\* before any; it changes only in a script execution whose button was pressed
\* with a non-empty goal list; every other script execution leaves it as it
\* was; while it is absent the comparison view shows no figures, and
\* otherwise the figures of that most recent run.
C10_CacheState ==
    /\ latest_context = last_run
    /\ (pc = "idle" /\ latest_context = <<>>) => (compare_view = <<>> /\ inp = <<>>)
    /\ (pc = "idle" /\ latest_context # <<>>) =>
          /\ latest_context[1].selected_goals = inp[1].selected_goals
          /\ latest_context[1].risk_level = rule[1].risk
          /\ Len(latest_context[1].balances_nominal) = inp[1].horizon
          /\ compare_view # <<>>
          /\ compare_view[1].port_future = latest_context[1].port_future
          /\ compare_view[1].top_goal = inp[1].selected_goals[1]

C10_CacheStep ==
    /\ latest_context' # latest_context =>
          (last_event.submitted /\ last_event.selected_goals # <<>> /\ pc = "project")
    /\ (runs' = runs + 1 /\ ~(last_event'.submitted /\ last_event'.selected_goals # <<>>)) =>
          latest_context' = latest_context
    /\ (pc = "project" /\ pc' = "idle") =>
          (latest_context' # <<>> /\ latest_context'[1].port_future = shown'[1].projection.corpus_port)

C10_LastWriteWins == [](C10_CacheState) /\ [][C10_CacheStep]_vars

C10_Witness ==
    /\ pc = "idle"
    /\ runs = 2
    /\ shown = <<>>
    /\ latest_context # <<>>
    /\ latest_context = last_run
    /\ compare_view # <<>>

ProjApplied == fn_result # <<>> /\ "horizon" \in DOMAIN fn_args
Distance(a, b) == IF a >= b THEN a - b ELSE b - a
NonDecreasing(series) == \A y \in 1..(Len(series) - 1) : series[y] <= series[y + 1]

C6_BothSeriesNonDecreasing ==
    ProjApplied =>
        /\ NonDecreasing(fn_result[1].balances_nominal)
        /\ NonDecreasing(fn_result[1].balances_real)

\* C6 as amended: the nominal series is non-decreasing; the inflation-adjusted
\* series is the nominal one when inflation is 0, and is non-decreasing when
\* the inflation rate is at least half a percentage point below the expected
\* return.
C6_NominalNonDecreasing ==
    ProjApplied =>
        /\ NonDecreasing(fn_result[1].balances_nominal)
        /\ fn_args.inflation_rate = 0 =>
              fn_result[1].balances_real = fn_result[1].balances_nominal
        /\ 200 * fn_args.inflation_rate + SCALE <= 200 * fn_args.annual_return =>
              NonDecreasing(fn_result[1].balances_real)

C6_Witness ==
    /\ ProjApplied
    /\ fn_args.horizon >= 2
    /\ fn_args.inflation_rate > fn_args.annual_return
    /\ fn_args.annual_return > 0
    /\ fn_args.current_savings > 0
    /\ fn_result[1].balances_nominal[1] < fn_result[1].balances_nominal[2]
    /\ fn_result[1].balances_real[1] > fn_result[1].balances_real[2]

AllocApplied == fn_result # <<>> /\ "raw_alloc" \in DOMAIN fn_args
CoercedTotal ==
    SumValues([k \in KeySet |-> Coerce(fn_args.raw_alloc, fn_args.default_alloc, k)])
AllZero(raw) == DOMAIN raw = KeySet /\ \A k \in KeySet : raw[k] = Num(0)
Empty(raw) == DOMAIN raw = {}

\* C7: with one of the three tier mixes as the default and a positive coerced
\* total, the four returned weights are all non-negative and sum to 1 (to
\* within the rounding of the four divisions), whatever the raw mapping lacks
\* or holds, negative entries included.
C7_WeightsNonNegativeSumToOne ==
    (AllocApplied /\ fn_args.default_alloc \in TierMixes /\ CoercedTotal > 0) =>
        /\ DOMAIN fn_result[1] = KeySet
        /\ \A k \in KeySet : fn_result[1][k] >= 0
        /\ Distance(SumValues(fn_result[1]), SCALE) <= 4

\* C8 as stated: the default mapping itself is returned whenever the raw
\* mapping is empty, is all-zero, or has a coerced total <= 0, whatever the
\* default is.
C8_DegenerateReturnsDefault ==
    (AllocApplied /\ (Empty(fn_args.raw_alloc) \/ AllZero(fn_args.raw_alloc) \/ CoercedTotal <= 0)) =>
        fn_result[1] = fn_args.default_alloc

\* C8 as amended: the default mapping itself is returned whenever the coerced
\* total is <= 0, which an all-zero raw mapping always gives; an empty raw
\* mapping gives the default rescaled by its own total, which is the default
\* itself only if that total is <= 0, or is 1 with all four keys present.
C8_NonPositiveTotalReturnsDefault ==
    AllocApplied =>
        /\ CoercedTotal <= 0 => fn_result[1] = fn_args.default_alloc
        /\ AllZero(fn_args.raw_alloc) => (CoercedTotal = 0 /\ fn_result[1] = fn_args.default_alloc)
        /\ (Empty(fn_args.raw_alloc) /\ CoercedTotal > 0) =>
              /\ \A k \in KeySet :
                    fn_result[1][k] = FDiv(DefaultGet(fn_args.default_alloc, k), CoercedTotal)
              /\ (CoercedTotal = SCALE /\ DOMAIN fn_args.default_alloc = KeySet) =>
                    fn_result[1] = fn_args.default_alloc

C8_Witness ==
    /\ AllocApplied
    /\ CoercedTotal < 0
    /\ \E k \in DOMAIN fn_args.raw_alloc : ~fn_args.raw_alloc[k].numeric
    /\ fn_args.default_alloc \in TierMixes
    /\ fn_result[1] = fn_args.default_alloc

FvApplied == fn_result # <<>> /\ "P" \in DOMAIN fn_args

\* C9 as stated: for every rate r > 0 and every principal P >= 0, P = 0
\* included, fv_lump_sum(P, r, n + 1) > fv_lump_sum(P, r, n).
C9_StrictlyIncreasingFromZero ==
    (FvApplied /\ fn_args.r > 0 /\ fn_args.P >= 0) => fn_result[1].at_next > fn_result[1].at_n

\* C9 as amended: for every rate r > 0, fv_lump_sum(P, r, n + 1) >
\* fv_lump_sum(P, r, n) for every principal P > 0, and fv_lump_sum(0, r, n) = 0
\* for every n.
C9_StrictlyIncreasingForPositive ==
    (FvApplied /\ fn_args.r > 0) =>
        /\ fn_args.P > 0 => fn_result[1].at_next > fn_result[1].at_n
        /\ fn_args.P = 0 => (fn_result[1].at_n = 0 /\ fn_result[1].at_next = 0)
        /\ fn_args.n = 0 => fn_result[1].at_n = ToFloat(fn_args.P)

C9_Witness ==
    /\ FvApplied
    /\ fn_args.P > 0
    /\ fn_args.r = annual_to_monthly_rate(Pct(7))
    /\ fn_args.n = 12
    /\ fn_result[1].at_next > fn_result[1].at_n
    /\ fn_result[1].at_n > ToFloat(fn_args.P)

\* The delay the specification states for failed attempt number k (0-based):
\* 2^k + 0.1 * k seconds, in tenths of a second.
StatedDelay(k) == 10 * (2 ^ k) + k

\* The failed attempts of the latest call that another attempt came after:
\* all of them, except the last attempt of the loop when it failed too.
FailedWithSuccessor ==
    IF last_outcome = <<>> THEN 0
    ELSE IF ~FailedAttempt(last_outcome[1]) THEN requests - 1
    ELSE IF requests = max_retries THEN requests - 1
    ELSE requests

\* C11 as stated: the delays a call waits are exactly those of its failed
\* attempts that another attempt follows, failed attempt k being followed by
\* 2^k + 0.1 * k seconds; nothing is waited after the final failed attempt
\* before None is returned, and nothing after a successful attempt.
C11_DelayOnlyBetweenAttempts ==
    /\ Len(sleeps) = FailedWithSuccessor
    /\ \A k \in 1..Len(sleeps) : sleeps[k] = StatedDelay(k - 1)

RulesApplied == fn_result # <<>> /\ "base_exp_ret" \in DOMAIN fn_result[1]

\* 0.14 and 0.75 at the resolution of the modelled floats.
HighReturn == (14 * SCALE) \div 100
HighEquity == (75 * SCALE) \div 100

\* C12: for every input the score of infer_risk lies in 0..6 and the tier is
\* one of Low, Medium, High; without the long-horizon points (horizon < 15) the
\* score is at most 4, and with age > 50 it is at most 4, so the tier High is
\* returned only when horizon >= 15 and age <= 50, and the run block applies
\* the 0.14 expected return and the 0.75-equity mix to no run with horizon < 15
\* or age > 50.
C12_HighOnlyLongHorizonAndAgeUpTo50 ==
    RulesApplied =>
        /\ fn_result[1].risk_score \in 0..6
        /\ fn_result[1].rule_risk \in {"Low", "Medium", "High"}
        /\ fn_args.horizon < 15 => fn_result[1].risk_score <= 4
        /\ fn_args.age > 50 => fn_result[1].risk_score <= 4
        /\ fn_result[1].rule_risk = "High" => (fn_args.horizon >= 15 /\ fn_args.age <= 50)
        /\ (fn_args.horizon < 15 \/ fn_args.age > 50) =>
              /\ fn_result[1].base_exp_ret # HighReturn
              /\ fn_result[1].base_alloc.Equity # HighEquity

C12_Witness ==
    /\ RulesApplied
    /\ fn_args.age = 50
    /\ fn_args.horizon = 15
    /\ fn_result[1].risk_score = 5
    /\ fn_result[1].rule_risk = "High"
    /\ fn_result[1].base_exp_ret = HighReturn
    /\ fn_result[1].base_alloc.Equity = HighEquity
====
